---- MODULE Spec2Model ----
(***************************************************************************)
(* Model of the crypto asset calculator (CryptoAssetCalculator component). *)
(*                                                                         *)
(* Strings are sequences of one-character strings.  JavaScript numbers are *)
(* modelled as exact decimals m * 10^e (kind "num"), with NaN and the two  *)
(* infinities as separate kinds; binary rounding of IEEE doubles is not    *)
(* modelled.  Time stamps are counted in hours instead of milliseconds.    *)
(***************************************************************************)
EXTENDS Integers, Sequences, FiniteSets, TLC

VARIABLES
    impl,            \* which of the two implementations is running
    pricePerCoin,    \* useState<string>
    currentCoins,    \* useState<string>
    dailyCoins,      \* useState<string>
    endDate,         \* useState<string>
    usdToIdr,        \* useState<string>
    result,          \* useState<Result | null>
    error,           \* useState<string>
    isCalculating,   \* useState(false)
    isLoadingRate,   \* useState(false)
    computes,        \* compute() calls suspended in their delay (closures)
    fetches,         \* fetchExchangeRate() calls awaiting their response
    fetchSeq,        \* number of fetches started so far
    actions,         \* number of user actions (edits and clicks) so far
    today,           \* the local calendar day of the wall clock (days since 1970-01-01)
    dstShift,        \* hours the zone's UTC offset shifts by at DstDay (0 = no DST)
    last,            \* the compute or fetch that has just completed, with what it read
    hist             \* where the rate and the result on display came from

vars == <<impl, pricePerCoin, currentCoins, dailyCoins, endDate, usdToIdr,
          result, error, isCalculating, isLoadingRate, computes, fetches,
          fetchSeq, actions, today, dstShift, last, hist>>

-----------------------------------------------------------------------------
(* Bounds of the model *)

MaxActions == 3
MaxTicks == 1

(* The first day of the model's clock: 2026-11-01 *)
Day0 == 20758

(* The day on which the zone's offset shifts when dstShift # 0 *)
DstDay == Day0 + 1

-----------------------------------------------------------------------------
(* Characters and strings *)

DigitChars == <<"0", "1", "2", "3", "4", "5", "6", "7", "8", "9">>

IsDigit(c) == \E i \in 1..10 : DigitChars[i] = c

DigitVal(c) == (CHOOSE i \in 1..10 : DigitChars[i] = c) - 1

IsSpace(c) == c \in {" ", "\t", "\n"}

AllDigits(s) == \A i \in 1..Len(s) : IsDigit(s[i])

RECURSIVE DigitsToInt(_)
DigitsToInt(s) ==
    IF s = <<>> THEN 0
    ELSE 10 * DigitsToInt(SubSeq(s, 1, Len(s) - 1)) + DigitVal(s[Len(s)])

RECURSIVE IntToDigits(_)
IntToDigits(n) ==
    IF n < 10 THEN <<DigitChars[n + 1]>>
    ELSE IntToDigits(n \div 10) \o <<DigitChars[(n % 10) + 1]>>

RECURSIVE PadStart(_, _)
PadStart(s, width) == IF Len(s) >= width THEN s ELSE PadStart(<<"0">> \o s, width)

(* replace(",", "") without the g flag: only the first comma goes *)
RemoveCommas_firstOnly(s) ==
    IF \A i \in 1..Len(s) : s[i] # "," THEN s
    ELSE LET k == CHOOSE i \in 1..Len(s) :
                      s[i] = "," /\ \A j \in 1..(i - 1) : s[j] # ","
         IN  SubSeq(s, 1, k - 1) \o SubSeq(s, k + 1, Len(s))

(* String.prototype.replace(/,/g, "") *)
RemoveCommas(s) == SelectSeq(s, LAMBDA c : c # ",")

RECURSIVE TrimStart(_)
TrimStart(s) ==
    IF s # <<>> /\ IsSpace(Head(s)) THEN TrimStart(Tail(s)) ELSE s

RECURSIVE TrimEnd(_)
TrimEnd(s) ==
    IF s # <<>> /\ IsSpace(s[Len(s)]) THEN TrimEnd(SubSeq(s, 1, Len(s) - 1)) ELSE s

(* String.prototype.trim() *)
Trim(s) == TrimEnd(TrimStart(s))

(* Position of the first element of s that is in set cs, 0 if none *)
IndexOf(s, cs) ==
    IF \E i \in 1..Len(s) : s[i] \in cs
    THEN CHOOSE i \in 1..Len(s) : s[i] \in cs /\ \A j \in 1..(i - 1) : s[j] \notin cs
    ELSE 0

-----------------------------------------------------------------------------
(* JavaScript numbers *)

NaN == [kind |-> "nan", m |-> 0, e |-> 0]

Infinity(sign) == [kind |-> "inf", m |-> sign, e |-> 0]

RECURSIVE Pow10(_)
Pow10(n) == IF n <= 0 THEN 1 ELSE 10 * Pow10(n - 1)

Abs(n) == IF n < 0 THEN -n ELSE n

Sign(n) == IF n < 0 THEN -1 ELSE 1

RECURSIVE NumDigits(_)
NumDigits(n) == IF n < 10 THEN 1 ELSE 1 + NumDigits(n \div 10)

RECURSIVE StripZeros(_, _)
StripZeros(m, e) ==
    IF m = 0 THEN <<0, 0>>
    ELSE IF m % 10 = 0 THEN StripZeros(m \div 10, e + 1)
    ELSE <<m, e>>

(* n * 10^e with n > 0 of at most ten digits rounds to an infinity: it is at *)
(* least 2^1024 - 2^970 = 1.797693134862315807...e308                       *)
Overflows(n, e) ==
    LET digits == NumDigits(n)
        order == digits + e - 1
    IN  \/ order > 308
        \/ /\ order = 308
           /\ IF digits >= 10 THEN n >= 1797693135
              ELSE n * Pow10(9 - digits) >= 179769314

(* The double nearest to m * 10^e: magnitudes beyond the double range become *)
(* an infinity, magnitudes below it become zero.                             *)
MkNum(m, e) ==
    LET n == StripZeros(Abs(m), e)
        order == NumDigits(n[1]) + n[2] - 1
    IN  IF n[1] = 0 THEN [kind |-> "num", m |-> 0, e |-> 0]
        ELSE IF Overflows(n[1], n[2]) THEN Infinity(Sign(m))
        ELSE IF order < -324 THEN [kind |-> "num", m |-> 0, e |-> 0]
        ELSE [kind |-> "num", m |-> Sign(m) * n[1], e |-> n[2]]

FromInt(i) == MkNum(i, 0)

IsNaN(a) == a.kind = "nan"

(* Number.isFinite *)
IsFinite(a) == a.kind = "num"

IsZero(a) == a.kind = "num" /\ a.m = 0

(* a < 0, a > 0, a <= 0 as JavaScript evaluates them: false when a is NaN *)
LtZero(a) == a.kind # "nan" /\ a.m < 0

GtZero(a) == a.kind # "nan" /\ a.m > 0

LeZero(a) == a.kind # "nan" /\ a.m <= 0

(* a * b *)
Mul(a, b) ==
    IF IsNaN(a) \/ IsNaN(b) THEN NaN
    ELSE IF a.kind = "inf" \/ b.kind = "inf"
         THEN IF IsZero(a) \/ IsZero(b) THEN NaN
              ELSE Infinity(Sign(a.m) * Sign(b.m))
    ELSE MkNum(a.m * b.m, a.e + b.e)

(* The decimal order of magnitude of a finite a # 0: 10^(Order - 1) <= |a| *)
Order(a) == NumDigits(Abs(a.m)) + a.e

(* a + b: an operand below half a unit in the last place of the other (more *)
(* than 17 decimal orders smaller) is absorbed                              *)
Add(a, b) ==
    IF IsNaN(a) \/ IsNaN(b) THEN NaN
    ELSE IF a.kind = "inf" /\ b.kind = "inf"
         THEN IF a.m = b.m THEN a ELSE NaN
    ELSE IF a.kind = "inf" THEN a
    ELSE IF b.kind = "inf" THEN b
    ELSE IF IsZero(b) THEN a
    ELSE IF IsZero(a) THEN b
    ELSE IF Order(a) - Order(b) > 17 THEN a
    ELSE IF Order(b) - Order(a) > 17 THEN b
    ELSE LET lo == IF a.e < b.e THEN a.e ELSE b.e
         IN  MkNum(a.m * Pow10(a.e - lo) + b.m * Pow10(b.e - lo), lo)

(* a <= b for finite a, b *)
Leq(a, b) ==
    IF Sign(a.m) # Sign(b.m) \/ IsZero(a) \/ IsZero(b) THEN a.m <= b.m
    ELSE IF Order(a) # Order(b)
         THEN IF a.m > 0 THEN Order(a) < Order(b) ELSE Order(a) > Order(b)
    ELSE LET lo == IF a.e < b.e THEN a.e ELSE b.e
         IN  a.m * Pow10(a.e - lo) <= b.m * Pow10(b.e - lo)

InfinityChars == <<"I", "n", "f", "i", "n", "i", "t", "y">>

(* An unsigned StrDecimalLiteral: digits, optional fraction, optional exponent *)
UnsignedToNumber(s, sign) ==
    LET ePos   == IndexOf(s, {"e", "E"})
        mant   == IF ePos = 0 THEN s ELSE SubSeq(s, 1, ePos - 1)
        expo   == IF ePos = 0 THEN <<>> ELSE SubSeq(s, ePos + 1, Len(s))
        eSign  == IF expo # <<>> /\ Head(expo) = "-" THEN -1 ELSE 1
        eDigs  == IF expo # <<>> /\ Head(expo) \in {"+", "-"} THEN Tail(expo) ELSE expo
        dot    == IndexOf(mant, {"."})
        ip     == IF dot = 0 THEN mant ELSE SubSeq(mant, 1, dot - 1)
        fp     == IF dot = 0 THEN <<>> ELSE SubSeq(mant, dot + 1, Len(mant))
        expOk  == ePos = 0 \/ (eDigs # <<>> /\ AllDigits(eDigs))
        mantOk == AllDigits(ip) /\ AllDigits(fp) /\ Len(ip) + Len(fp) > 0
    IN  IF s = InfinityChars THEN Infinity(sign)
        ELSE IF ~(expOk /\ mantOk) THEN NaN
        ELSE MkNum(sign * DigitsToInt(ip \o fp),
                   eSign * DigitsToInt(eDigs) - Len(fp))

RadixDigits == <<"0", "1", "2", "3", "4", "5", "6", "7", "8", "9",
                 "a", "b", "c", "d", "e", "f">>

UpperDigits == <<"0", "1", "2", "3", "4", "5", "6", "7", "8", "9",
                 "A", "B", "C", "D", "E", "F">>

IsRadixDigit(c, radix) ==
    \E i \in 1..radix : RadixDigits[i] = c \/ UpperDigits[i] = c

RadixDigitVal(c) ==
    (CHOOSE i \in 1..16 : RadixDigits[i] = c \/ UpperDigits[i] = c) - 1

RECURSIVE RadixToInt(_, _)
RadixToInt(s, radix) ==
    IF s = <<>> THEN 0
    ELSE radix * RadixToInt(SubSeq(s, 1, Len(s) - 1), radix) + RadixDigitVal(s[Len(s)])

(* The radix of a NonDecimalIntegerLiteral (0x.., 0o.., 0b..), 0 if t is none *)
LiteralRadix(t) ==
    IF Len(t) < 3 \/ t[1] # "0" THEN 0
    ELSE LET radix == IF t[2] \in {"x", "X"} THEN 16
                      ELSE IF t[2] \in {"o", "O"} THEN 8
                      ELSE IF t[2] \in {"b", "B"} THEN 2
                      ELSE 0
         IN  IF radix # 0 /\ \A i \in 3..Len(t) : IsRadixDigit(t[i], radix)
             THEN radix ELSE 0

(* Number(string): StringToNumber of the language *)
StringToNumber(s) ==
    LET t == Trim(s)
    IN  IF t = <<>> THEN FromInt(0)
        ELSE IF LiteralRadix(t) # 0
             THEN FromInt(RadixToInt(SubSeq(t, 3, Len(t)), LiteralRadix(t)))
        ELSE IF Head(t) = "-" THEN UnsignedToNumber(Tail(t), -1)
        ELSE IF Head(t) = "+" THEN UnsignedToNumber(Tail(t), 1)
        ELSE UnsignedToNumber(t, 1)

parseNumber_emptyIsNaN(v) ==
    IF v = <<>> THEN NaN
    ELSE LET cleaned == Trim(RemoveCommas(v))
             n == StringToNumber(cleaned)
         IN  IF IsFinite(n) THEN n ELSE NaN

parseNumber(v) ==
    IF v = <<>> THEN FromInt(0)
    ELSE LET cleaned == Trim(RemoveCommas(v))
             n == StringToNumber(cleaned)
         IN  IF IsFinite(n) THEN n ELSE NaN

-----------------------------------------------------------------------------
(* Calendar and Date *)

IsLeap(y) == (y % 4 = 0 /\ y % 100 # 0) \/ y % 400 = 0

DaysInMonth(y, m) ==
    IF m = 2 THEN (IF IsLeap(y) THEN 29 ELSE 28)
    ELSE IF m \in {4, 6, 9, 11} THEN 30 ELSE 31

(* Days since 1970-01-01 of the civil date y-m-d (d may exceed the month) *)
DaysFromCivil(y, m, d) ==
    LET yy  == IF m <= 2 THEN y - 1 ELSE y
        era == yy \div 400
        yoe == yy - era * 400
        mp  == IF m > 2 THEN m - 3 ELSE m + 9
        doy == (153 * mp + 2) \div 5 + d - 1
        doe == yoe * 365 + yoe \div 4 - yoe \div 100 + doy
    IN  era * 146097 + doe - 719468

(* The civil date <<y, m, d>> of a day number *)
CivilFromDays(z) ==
    LET zz  == z + 719468
        era == zz \div 146097
        doe == zz - era * 146097
        yoe == (doe - doe \div 1460 + doe \div 36524 - doe \div 146096) \div 365
        doy == doe - (365 * yoe + yoe \div 4 - yoe \div 100)
        mp  == (5 * doy + 2) \div 153
        d   == doy - (153 * mp + 2) \div 5 + 1
        m   == IF mp < 10 THEN mp + 3 ELSE mp - 9
        y   == yoe + era * 400
    IN  <<IF m <= 2 THEN y + 1 ELSE y, m, d>>

(* Hours from the epoch to the local midnight that starts a calendar day *)
LocalMidnight(day) == 24 * day + (IF day >= DstDay THEN dstShift ELSE 0)

InvalidDate == [ok |-> FALSE, t |-> 0]

(* new Date(string) for the date-time form YYYY-MM-DDTHH:mm:ss, read as   *)
(* local time; any other string is an Invalid Date                        *)
NewDate(s) ==
    IF /\ Len(s) = 19
       /\ AllDigits(SubSeq(s, 1, 4)) /\ s[5] = "-"
       /\ AllDigits(SubSeq(s, 6, 7)) /\ s[8] = "-"
       /\ AllDigits(SubSeq(s, 9, 10)) /\ s[11] = "T"
       /\ AllDigits(SubSeq(s, 12, 13)) /\ s[14] = ":"
       /\ AllDigits(SubSeq(s, 15, 16)) /\ s[17] = ":"
       /\ AllDigits(SubSeq(s, 18, 19))
    THEN LET y  == DigitsToInt(SubSeq(s, 1, 4))
             m  == DigitsToInt(SubSeq(s, 6, 7))
             d  == DigitsToInt(SubSeq(s, 9, 10))
             hh == DigitsToInt(SubSeq(s, 12, 13))
             mm == DigitsToInt(SubSeq(s, 15, 16))
             ss == DigitsToInt(SubSeq(s, 18, 19))
         IN  IF /\ m \in 1..12 /\ d >= 1 /\ d <= DaysInMonth(y, m)
                /\ hh \in 0..23 /\ mm = 0 /\ ss = 0
             THEN [ok |-> TRUE, t |-> LocalMidnight(DaysFromCivil(y, m, d)) + hh]
             ELSE InvalidDate
    ELSE InvalidDate

(* date.toISOString().slice(0, 10) of a date on UTC calendar day z *)
ISODate(z) ==
    LET c == CivilFromDays(z)
    IN  PadStart(IntToDigits(c[1]), 4) \o <<"-">> \o PadStart(IntToDigits(c[2]), 2)
          \o <<"-">> \o PadStart(IntToDigits(c[3]), 2)

(* date.setMonth(date.getMonth() + 1) on local calendar day z: same day   *)
(* number in the next month, overflowing into the month after             *)
SetMonthPlusOne(z) ==
    LET c == CivilFromDays(z)
        y == IF c[2] = 12 THEN c[1] + 1 ELSE c[1]
        m == IF c[2] = 12 THEN 1 ELSE c[2] + 1
    IN  DaysFromCivil(y, m, c[3])

TimeSuffix == <<"T", "0", "0", ":", "0", "0", ":", "0", "0">>

(* Math.ceil(a / b) for b > 0 *)
CeilDiv(a, b) == -((-a) \div b)

msPerDay == 24

-----------------------------------------------------------------------------
(* Messages and values of the component *)

NoError == ""

InvalidPrice == "Masukkan harga per koin (USDT) yang valid."

InvalidHolding == "Masukkan jumlah koin yang valid."

InvalidAccrual == "Masukkan jumlah koin harian yang valid (0 jika tidak ingin proyeksi)."

InvalidRate == "Masukkan kurs USD->IDR yang valid (misal 15000)."

RateFetchFailed == "Gagal memuat kurs USD->IDR. Gunakan nilai default."

NULL == [null |-> TRUE]

FallbackRate == <<"1", "5", "0", "0", "0">>

ProjectionFields == {"projectedUSDT", "projectedIDR", "daysProjected"}

(* Number.prototype.toString (plain decimal notation) *)
NumToString(n) ==
    IF n.kind = "nan" THEN <<"N", "a", "N">>
    ELSE IF n.kind = "inf"
         THEN (IF n.m < 0 THEN <<"-">> ELSE <<>>) \o InfinityChars
    ELSE LET sgn  == IF n.m < 0 THEN <<"-">> ELSE <<>>
             digs == IntToDigits(Abs(n.m))
         IN  IF n.e >= 0
             THEN sgn \o digs \o [i \in 1..n.e |-> "0"]
             ELSE LET padded == PadStart(digs, 1 - n.e)
                      cut    == Len(padded) + n.e
                  IN  sgn \o SubSeq(padded, 1, cut) \o <<".">>
                          \o SubSeq(padded, cut + 1, Len(padded))

(* The closure of one compute() call: the state its render captured *)
Snapshot ==
    [pricePerCoin |-> pricePerCoin, currentCoins |-> currentCoins,
     dailyCoins |-> dailyCoins, usdToIdr |-> usdToIdr, endDate |-> endDate]

(* Validate with the holding check ahead of the price check *)
Validate_holdingFirst(price, coins, daily, rate) ==
    IF IsNaN(coins) \/ LtZero(coins) THEN InvalidHolding
    ELSE IF IsNaN(price) \/ LtZero(price) THEN InvalidPrice
    ELSE IF IsNaN(daily) \/ LtZero(daily) THEN InvalidAccrual
    ELSE IF IsNaN(rate) \/ LeZero(rate) THEN InvalidRate
    ELSE NoError

(* Validate with the accrual check ahead of the holding check *)
Validate_accrualBeforeHolding(price, coins, daily, rate) ==
    IF IsNaN(price) \/ LtZero(price) THEN InvalidPrice
    ELSE IF IsNaN(daily) \/ LtZero(daily) THEN InvalidAccrual
    ELSE IF IsNaN(coins) \/ LtZero(coins) THEN InvalidHolding
    ELSE IF IsNaN(rate) \/ LeZero(rate) THEN InvalidRate
    ELSE NoError

(* Validate with rate < 0 in place of rate <= 0 *)
Validate_zeroRateAccepted(price, coins, daily, rate) ==
    IF IsNaN(price) \/ LtZero(price) THEN InvalidPrice
    ELSE IF IsNaN(coins) \/ LtZero(coins) THEN InvalidHolding
    ELSE IF IsNaN(daily) \/ LtZero(daily) THEN InvalidAccrual
    ELSE IF IsNaN(rate) \/ LtZero(rate) THEN InvalidRate
    ELSE NoError

(* Validations without the Number.isNaN tests: NaN < 0 is false *)
Validate_nanAccepted(price, coins, daily, rate) ==
    IF LtZero(price) THEN InvalidPrice
    ELSE IF LtZero(coins) THEN InvalidHolding
    ELSE IF LtZero(daily) THEN InvalidAccrual
    ELSE IF LeZero(rate) THEN InvalidRate
    ELSE NoError

(* The four validations of compute, in order: the message of the first that *)
(* fails, NoError if none does                                              *)
Validate(price, coins, daily, rate) ==
    IF IsNaN(price) \/ LtZero(price) THEN InvalidPrice
    ELSE IF IsNaN(coins) \/ LtZero(coins) THEN InvalidHolding
    ELSE IF IsNaN(daily) \/ LtZero(daily) THEN InvalidAccrual
    ELSE IF IsNaN(rate) \/ LeZero(rate) THEN InvalidRate
    ELSE NoError

(* DaysProjected without the diff > 0 ? diff : 0 floor *)
DaysProjected_noFloor(date, day) ==
    LET end == NewDate(date \o TimeSuffix)
    IN  IF end.ok THEN CeilDiv(end.t - LocalMidnight(day), msPerDay) ELSE 0

(* daysProjected of compute: whole days from the local midnight of day to *)
(* the local midnight of the target date, never below zero                *)
DaysProjected(date, day) ==
    LET end  == NewDate(date \o TimeSuffix)
        diff == IF end.ok
                THEN [ok |-> TRUE, t |-> CeilDiv(end.t - LocalMidnight(day), msPerDay)]
                ELSE InvalidDate
    IN  IF diff.ok /\ diff.t > 0 THEN diff.t ELSE 0

(* Totals with totalIDR taken from the price instead of totalUSDT *)
Totals_withoutHolding(price, coins, rate) ==
    [totalUSDT |-> Mul(price, coins), totalIDR |-> Mul(price, rate)]

(* totalUSDT and totalIDR of compute *)
Totals(price, coins, rate) ==
    LET totalUSDT == Mul(price, coins)
        totalIDR  == Mul(totalUSDT, rate)
    IN  [totalUSDT |-> totalUSDT, totalIDR |-> totalIDR]

(* ProjectionActive without the daily > 0 test *)
ProjectionActive_dateOnly(daily, date) == date # <<>>

(* The condition under which compute adds the projection: daily > 0 && endDate *)
ProjectionActive(daily, date) == GtZero(daily) /\ date # <<>>

(* Projection that values the added coins only *)
Projection_addedOnly(price, coins, daily, rate, daysProjected) ==
    LET addedCoins == Mul(daily, FromInt(daysProjected))
        projectedUSDT == Mul(addedCoins, price)
    IN  [projectedUSDT |-> projectedUSDT, projectedIDR |-> Mul(projectedUSDT, rate)]

(* Projection that takes the accrued coins away from the holding *)
Projection_subtractsAccrual(price, coins, daily, rate, daysProjected) ==
    LET addedCoins == Mul(daily, FromInt(daysProjected))
        projectedCoinsTotal == Add(coins, Mul(addedCoins, FromInt(-1)))
        projectedUSDT == Mul(projectedCoinsTotal, price)
        projectedIDR == Mul(projectedUSDT, rate)
    IN  [projectedUSDT |-> projectedUSDT, projectedIDR |-> projectedIDR]

(* projectedUSDT and projectedIDR of compute *)
Projection(price, coins, daily, rate, daysProjected) ==
    LET addedCoins == Mul(daily, FromInt(daysProjected))
        projectedCoinsTotal == Add(coins, addedCoins)
        projectedUSDT == Mul(projectedCoinsTotal, price)
        projectedIDR == Mul(projectedUSDT, rate)
    IN  [projectedUSDT |-> projectedUSDT, projectedIDR |-> projectedIDR]

(* A Result whose projection lacks the fiat figure *)
MakeResult_withoutProjectedIDR(price, coins, daily, rate, date, day) ==
    LET res == Totals(price, coins, rate)
    IN  IF ProjectionActive(daily, date)
        THEN LET daysProjected == DaysProjected(date, day)
                 proj == Projection(price, coins, daily, rate, daysProjected)
             IN  [totalUSDT |-> res.totalUSDT, totalIDR |-> res.totalIDR,
                  projectedUSDT |-> proj.projectedUSDT,
                  daysProjected |-> daysProjected]
        ELSE res

(* The Result record compute builds once validation has passed *)
MakeResult(price, coins, daily, rate, date, day) ==
    LET res == Totals(price, coins, rate)
    IN  IF ProjectionActive(daily, date)
        THEN LET daysProjected == DaysProjected(date, day)
                 proj == Projection(price, coins, daily, rate, daysProjected)
             IN  [totalUSDT |-> res.totalUSDT, totalIDR |-> res.totalIDR,
                  projectedUSDT |-> proj.projectedUSDT,
                  projectedIDR |-> proj.projectedIDR,
                  daysProjected |-> daysProjected]
        ELSE res

(* Outcome that reports an unparseable target date as an error *)
Outcome_dateError(snap, day, res, err) ==
    LET price == parseNumber(snap.pricePerCoin)
        coins == parseNumber(snap.currentCoins)
        daily == parseNumber(snap.dailyCoins)
        rate  == parseNumber(snap.usdToIdr)
        msg   == Validate(price, coins, daily, rate)
    IN  IF msg # NoError
        THEN [published |-> FALSE, result |-> res, error |-> msg]
        ELSE IF ProjectionActive(daily, snap.endDate)
                /\ ~NewDate(snap.endDate \o TimeSuffix).ok
        THEN [published |-> FALSE, result |-> res, error |-> InvalidAccrual]
        ELSE [published |-> TRUE,
              result |-> MakeResult(price, coins, daily, rate, snap.endDate, day),
              error |-> err]

(* Outcome that clears the result when a validation fails *)
Outcome_clearsResult(snap, day, res, err) ==
    LET price == parseNumber(snap.pricePerCoin)
        coins == parseNumber(snap.currentCoins)
        daily == parseNumber(snap.dailyCoins)
        rate  == parseNumber(snap.usdToIdr)
        msg   == Validate(price, coins, daily, rate)
    IN  IF msg # NoError
        THEN [published |-> FALSE, result |-> NULL, error |-> msg]
        ELSE [published |-> TRUE,
              result |-> MakeResult(price, coins, daily, rate, snap.endDate, day),
              error |-> err]

(* Outcome that adds the new totals onto the result already on display *)
Outcome_accumulates(snap, day, res, err) ==
    LET price == parseNumber(snap.pricePerCoin)
        coins == parseNumber(snap.currentCoins)
        daily == parseNumber(snap.dailyCoins)
        rate  == parseNumber(snap.usdToIdr)
        msg   == Validate(price, coins, daily, rate)
        new   == MakeResult(price, coins, daily, rate, snap.endDate, day)
    IN  IF msg # NoError
        THEN [published |-> FALSE, result |-> res, error |-> msg]
        ELSE [published |-> TRUE,
              result |-> IF res = NULL THEN new
                         ELSE [new EXCEPT !.totalUSDT = Add(res.totalUSDT, @),
                                          !.totalIDR = Add(res.totalIDR, @)],
              error |-> err]

(* What compute leaves in result and error when it runs on the captured   *)
(* strings snap on calendar day day, given the result and error it finds, *)
(* and whether it called setResult                                        *)
Outcome_clearsError(snap, day, res, err) ==
    LET price == parseNumber(snap.pricePerCoin)
        coins == parseNumber(snap.currentCoins)
        daily == parseNumber(snap.dailyCoins)
        rate  == parseNumber(snap.usdToIdr)
        msg   == Validate(price, coins, daily, rate)
    IN  IF msg # NoError
        THEN [published |-> FALSE, result |-> res, error |-> msg]
        ELSE [published |-> TRUE,
              result |-> MakeResult(price, coins, daily, rate, snap.endDate, day),
              error |-> NoError]

Outcome(snap, day, res, err) ==
    LET price == parseNumber(snap.pricePerCoin)
        coins == parseNumber(snap.currentCoins)
        daily == parseNumber(snap.dailyCoins)
        rate  == parseNumber(snap.usdToIdr)
        msg   == Validate(price, coins, daily, rate)
    IN  IF msg # NoError
        THEN [published |-> FALSE, result |-> res, error |-> msg]
        ELSE [published |-> TRUE,
              result |-> MakeResult(price, coins, daily, rate, snap.endDate, day),
              error |-> err]

NoSnap == [pricePerCoin |-> <<>>, currentCoins |-> <<>>, dailyCoins |-> <<>>,
           usdToIdr |-> <<>>, endDate |-> <<>>]

(* What the handler that ran last was, and what it read *)
Last(op, snap, before) == [op |-> op, snap |-> snap, before |-> before]

(* After any other handler *)
NoLast == Last("other", NoSnap, NULL)

(* The same for a completed fetchExchangeRate: which call, and its response *)
LastFetch(id, resp) ==
    [op |-> "fetch", snap |-> NoSnap, before |-> NULL, id |-> id, resp |-> resp]

(* Provenance of what is on display: the rate the most recently started   *)
(* fetch produced (once it has completed), the inputs and the day of the  *)
(* compute that published the result, and whether the form has been left  *)
(* alone since resetAll                                                   *)
Hist(fetched, rate, snap, day, reset) ==
    [fetched |-> fetched, rate |-> rate, snap |-> snap, day |-> day, reset |-> reset]

NoHist == Hist(FALSE, <<>>, NoSnap, 0, FALSE)

(* The user has acted on the form since the last resetAll *)
Touched == [hist EXCEPT !.reset = FALSE]

-----------------------------------------------------------------------------
(* Inputs of the model *)

S_048 == <<"0", ".", "4", "8">>
S_04800 == <<"0", ".", "4", "8", "0", "0">>
S_04796 == <<"0", ".", "4", "7", "9", "6">>
S_0 == <<"0">>
S_1000 == <<"1", ",", "0", "0", "0">>
S_8578 == <<"8", "5", "7", "8">>
S_180 == <<"1", "8", "0">>
S_16000 == <<"1", "6", "0", "0", "0">>
S_neg5 == <<"-", "5">>
S_abc == <<"a", "b", "c">>
S_1e308 == <<"1", "e", "3", "0", "8">>

PriceInputs == {S_048, S_04796, S_neg5, S_abc, <<>>}

CoinInputs == {S_1000, S_8578, S_neg5, S_abc, <<>>}

DailyInputs == {S_0, S_180, S_1e308, S_neg5, S_abc, <<>>}

RateInputs == {FallbackRate, S_0, S_neg5, S_abc, <<>>}

DayOffsets == {-1, 0, 1, 30}

DateInputs == {<<>>, S_abc} \cup {ISODate(Day0 + k) : k \in DayOffsets}

(* What the user types into the fields while the form is running *)
PriceEdits == {S_neg5, <<>>}

CoinEdits == {S_abc}

DailyEdits == {S_neg5}

RateEdits == {S_0}

DateEdits == {ISODate(Day0 + 1)}

(* JSON values the rate service may put under rates.IDR *)
JsNumber(n) == [t |-> "number", n |-> n, s |-> <<>>]

(* ToBoolean *)
Truthy(v) ==
    IF v.t = "number" THEN ~IsNaN(v.n) /\ ~IsZero(v.n) ELSE v.s # <<>>

(* value.toString() *)
JsToString(v) == IF v.t = "number" THEN NumToString(v.n) ELSE v.s

(* Outcomes of fetch + response.json(): a rejection, or a payload *)
Response(kind, idr) == [kind |-> kind, idr |-> idr]

Responses ==
    {Response("network_error", JsNumber(NaN)), Response("invalid_json", JsNumber(NaN)),
     Response("no_rates", JsNumber(NaN)),
     Response("no_idr", JsNumber(NaN)),
     Response("idr", JsNumber(FromInt(17000))),
     Response("idr", JsNumber(FromInt(0))),
     Response("idr", JsNumber(FromInt(-5)))}

(* The UTC calendar day relative to the local one, for a zone east of UTC *)
(* (the form runs in a zone such as Asia/Jakarta)                         *)
UtcShifts == {-1, 0}

-----------------------------------------------------------------------------
(* Initial states *)

HasFetch == impl = "part_000"

Init ==
    /\ impl \in {"pages/index.tsx", "part_000"}
    /\ pricePerCoin = IF HasFetch THEN S_04800 ELSE S_04796
    /\ currentCoins = <<>>
    /\ dailyCoins = <<>>
    /\ endDate = <<>>
    /\ usdToIdr = IF HasFetch THEN <<>> ELSE S_16000
    /\ result = NULL
    /\ error = NoError
    /\ isCalculating = FALSE
    /\ isLoadingRate = HasFetch        \* the mount effect has called fetchExchangeRate
    /\ fetches = IF HasFetch THEN {1} ELSE {}
    /\ fetchSeq = IF HasFetch THEN 1 ELSE 0
    /\ computes = <<>>
    /\ actions = 0
    /\ today = Day0
    /\ dstShift = 0                    \* a zone without daylight saving
    /\ last = NoLast
    /\ hist = NoHist

-----------------------------------------------------------------------------
(* Handlers *)

(* onChange of the five inputs *)
EditPrice(v) ==
    /\ actions < MaxActions
    /\ pricePerCoin' = v
    /\ actions' = actions + 1
    /\ last' = NoLast
    /\ hist' = Touched
    /\ UNCHANGED <<impl, currentCoins, dailyCoins, endDate, usdToIdr, result, error,
                   isCalculating, isLoadingRate, computes, fetches, fetchSeq, today, dstShift>>

EditCoins(v) ==
    /\ actions < MaxActions
    /\ currentCoins' = v
    /\ actions' = actions + 1
    /\ last' = NoLast
    /\ hist' = Touched
    /\ UNCHANGED <<impl, pricePerCoin, dailyCoins, endDate, usdToIdr, result, error,
                   isCalculating, isLoadingRate, computes, fetches, fetchSeq, today, dstShift>>

EditDaily(v) ==
    /\ actions < MaxActions
    /\ dailyCoins' = v
    /\ actions' = actions + 1
    /\ last' = NoLast
    /\ hist' = Touched
    /\ UNCHANGED <<impl, pricePerCoin, currentCoins, endDate, usdToIdr, result, error,
                   isCalculating, isLoadingRate, computes, fetches, fetchSeq, today, dstShift>>

EditRate(v) ==
    /\ actions < MaxActions
    /\ usdToIdr' = v
    /\ actions' = actions + 1
    /\ last' = NoLast
    /\ hist' = Touched
    /\ UNCHANGED <<impl, pricePerCoin, currentCoins, dailyCoins, endDate, result, error,
                   isCalculating, isLoadingRate, computes, fetches, fetchSeq, today, dstShift>>

EditDate(v) ==
    /\ actions < MaxActions
    /\ endDate' = v
    /\ actions' = actions + 1
    /\ last' = NoLast
    /\ hist' = Touched
    /\ UNCHANGED <<impl, pricePerCoin, currentCoins, dailyCoins, usdToIdr, result, error,
                   isCalculating, isLoadingRate, computes, fetches, fetchSeq, today, dstShift>>

(* compute() that leaves the previous error message on display *)
ComputeStart_keepsError ==
    /\ ~isCalculating
    /\ actions < MaxActions
    /\ actions' = actions + 1
    /\ error' = error
    /\ isCalculating' = TRUE
    /\ computes' = Append(computes, Snapshot)
    /\ last' = NoLast
    /\ hist' = Touched
    /\ UNCHANGED <<impl, pricePerCoin, currentCoins, dailyCoins, endDate, usdToIdr, result,
                   isLoadingRate, fetches, fetchSeq, today, dstShift>>

(* compute() behind a button that is not disabled while isCalculating *)
ComputeStart_notDisabled ==
    /\ actions < MaxActions
    /\ actions' = actions + 1
    /\ error' = NoError
    /\ isCalculating' = TRUE
    /\ computes' = Append(computes, Snapshot)
    /\ last' = NoLast
    /\ hist' = Touched
    /\ UNCHANGED <<impl, pricePerCoin, currentCoins, dailyCoins, endDate, usdToIdr, result,
                   isLoadingRate, fetches, fetchSeq, today, dstShift>>

(* compute() up to its await: the button is disabled while isCalculating *)
ComputeStart ==
    /\ ~isCalculating
    /\ actions < MaxActions
    /\ actions' = actions + 1
    /\ error' = NoError
    /\ isCalculating' = TRUE
    /\ computes' = Append(computes, Snapshot)
    /\ last' = NoLast
    /\ hist' = Touched
    /\ UNCHANGED <<impl, pricePerCoin, currentCoins, dailyCoins, endDate, usdToIdr, result,
                   isLoadingRate, fetches, fetchSeq, today, dstShift>>

(* compute() after its await, reading the fields as they are by then *)
ComputeFinish_readsCurrent(i) ==
    \E out \in {Outcome(Snapshot, today, result, error)} :
        /\ computes' = SubSeq(computes, 1, i - 1) \o SubSeq(computes, i + 1, Len(computes))
        /\ isCalculating' = FALSE
        /\ result' = out.result
        /\ error' = out.error
        /\ last' = Last("compute", computes[i], result)
        /\ hist' = IF out.published
                   THEN Hist(hist.fetched, hist.rate, computes[i], today, hist.reset)
                   ELSE hist
        /\ UNCHANGED <<impl, pricePerCoin, currentCoins, dailyCoins, endDate, usdToIdr,
                       isLoadingRate, fetches, fetchSeq, actions, today, dstShift>>

(* compute() whose failure returns leave the calculating flag set *)
ComputeFinish_failureKeepsFlag(i) ==
    \E out \in {Outcome(computes[i], today, result, error)} :
        /\ computes' = SubSeq(computes, 1, i - 1) \o SubSeq(computes, i + 1, Len(computes))
        /\ isCalculating' = ~out.published
        /\ result' = out.result
        /\ error' = out.error
        /\ last' = Last("compute", computes[i], result)
        /\ hist' = IF out.published
                   THEN Hist(hist.fetched, hist.rate, computes[i], today, hist.reset)
                   ELSE hist
        /\ UNCHANGED <<impl, pricePerCoin, currentCoins, dailyCoins, endDate, usdToIdr,
                       isLoadingRate, fetches, fetchSeq, actions, today, dstShift>>

(* compute() after its await, on the values its closure captured *)
ComputeFinish(i) ==
    \E out \in {Outcome(computes[i], today, result, error)} :
        /\ computes' = SubSeq(computes, 1, i - 1) \o SubSeq(computes, i + 1, Len(computes))
        /\ isCalculating' = FALSE
        /\ result' = out.result
        /\ error' = out.error
        /\ last' = Last("compute", computes[i], result)
        /\ hist' = IF out.published
                   THEN Hist(hist.fetched, hist.rate, computes[i], today, hist.reset)
                   ELSE hist
        /\ UNCHANGED <<impl, pricePerCoin, currentCoins, dailyCoins, endDate, usdToIdr,
                       isLoadingRate, fetches, fetchSeq, actions, today, dstShift>>

resetAll ==
    /\ actions < MaxActions
    /\ actions' = actions + 1
    /\ pricePerCoin' = S_04796
    /\ currentCoins' = S_0
    /\ dailyCoins' = S_0
    /\ endDate' = <<>>
    /\ usdToIdr' = FallbackRate
    /\ result' = NULL
    /\ error' = NoError
    /\ last' = NoLast
    /\ hist' = Hist(hist.fetched, hist.rate, NoSnap, 0, TRUE)
    /\ UNCHANGED <<impl, isCalculating, isLoadingRate, computes, fetches, fetchSeq,
                   today, dstShift>>

(* fetchExchangeRate() up to its await *)
StartFetch ==
    /\ isLoadingRate' = TRUE
    /\ fetchSeq' = fetchSeq + 1
    /\ fetches' = fetches \cup {fetchSeq + 1}
    /\ hist' = Hist(FALSE, <<>>, hist.snap, hist.day, FALSE)

(* The refresh button, disabled while isLoadingRate *)
FetchStart ==
    /\ HasFetch
    /\ ~isLoadingRate
    /\ actions < MaxActions
    /\ actions' = actions + 1
    /\ StartFetch
    /\ last' = NoLast
    /\ UNCHANGED <<impl, pricePerCoin, currentCoins, dailyCoins, endDate, usdToIdr, result,
                   error, isCalculating, computes, today, dstShift>>

(* fetchExchangeRate() that leaves the rate alone when the fetch fails *)
FetchFinish_keepsRate(id, resp) ==
    /\ id \in fetches
    /\ fetches' = fetches \ {id}
    /\ IF resp.kind = "idr" /\ Truthy(resp.idr)
       THEN usdToIdr' = JsToString(resp.idr) /\ error' = error
       ELSE usdToIdr' = usdToIdr /\ error' = RateFetchFailed
    /\ isLoadingRate' = FALSE
    /\ last' = LastFetch(id, resp)
    /\ hist' = IF id = fetchSeq
               THEN Hist(TRUE, usdToIdr', hist.snap, hist.day, hist.reset)
               ELSE hist
    /\ UNCHANGED <<impl, pricePerCoin, currentCoins, dailyCoins, endDate, result,
                   isCalculating, computes, fetchSeq, actions, today, dstShift>>

(* fetchExchangeRate() whose fallback is the rate of pages/index.tsx *)
FetchFinish_fallback16000(id, resp) ==
    /\ id \in fetches
    /\ fetches' = fetches \ {id}
    /\ IF resp.kind = "idr" /\ Truthy(resp.idr)
       THEN usdToIdr' = JsToString(resp.idr) /\ error' = error
       ELSE usdToIdr' = S_16000 /\ error' = RateFetchFailed
    /\ isLoadingRate' = FALSE
    /\ last' = LastFetch(id, resp)
    /\ hist' = IF id = fetchSeq
               THEN Hist(TRUE, usdToIdr', hist.snap, hist.day, hist.reset)
               ELSE hist
    /\ UNCHANGED <<impl, pricePerCoin, currentCoins, dailyCoins, endDate, result,
                   isCalculating, computes, fetchSeq, actions, today, dstShift>>

(* fetchExchangeRate() after its await, for one response *)
FetchFinish_clearsError(id, resp) ==
    /\ id \in fetches
    /\ fetches' = fetches \ {id}
    /\ IF resp.kind = "idr" /\ Truthy(resp.idr)
       THEN usdToIdr' = JsToString(resp.idr) /\ error' = NoError
       ELSE usdToIdr' = FallbackRate /\ error' = RateFetchFailed
    /\ isLoadingRate' = FALSE
    /\ last' = LastFetch(id, resp)
    /\ hist' = IF id = fetchSeq
               THEN Hist(TRUE, usdToIdr', hist.snap, hist.day, hist.reset)
               ELSE hist
    /\ UNCHANGED <<impl, pricePerCoin, currentCoins, dailyCoins, endDate, result,
                   isCalculating, computes, fetchSeq, actions, today, dstShift>>

FetchFinish(id, resp) ==
    /\ id \in fetches
    /\ fetches' = fetches \ {id}
    /\ IF resp.kind = "idr" /\ Truthy(resp.idr)
       THEN usdToIdr' = JsToString(resp.idr) /\ error' = error
       ELSE usdToIdr' = FallbackRate /\ error' = RateFetchFailed
    /\ isLoadingRate' = FALSE
    /\ last' = LastFetch(id, resp)
    /\ hist' = IF id = fetchSeq
               THEN Hist(TRUE, usdToIdr', hist.snap, hist.day, hist.reset)
               ELSE hist
    /\ UNCHANGED <<impl, pricePerCoin, currentCoins, dailyCoins, endDate, result,
                   isCalculating, computes, fetchSeq, actions, today, dstShift>>

(* The sample-data button; utcShift is the UTC calendar day of the clock *)
(* relative to the local one                                             *)
fillSampleData(utcShift) ==
    /\ actions < MaxActions
    /\ actions' = actions + 1
    /\ pricePerCoin' = S_04796
    /\ currentCoins' = S_8578
    /\ dailyCoins' = S_180
    /\ endDate' = ISODate(SetMonthPlusOne(today) + utcShift)
    /\ IF HasFetch
       THEN StartFetch
       ELSE hist' = Touched /\ UNCHANGED <<isLoadingRate, fetchSeq, fetches>>
    /\ last' = NoLast
    /\ UNCHANGED <<impl, usdToIdr, result, error, isCalculating, computes,
                   today, dstShift>>

(* Midnight passes *)
Tick ==
    /\ today < Day0 + MaxTicks
    /\ today' = today + 1
    /\ last' = NoLast
    /\ UNCHANGED <<impl, pricePerCoin, currentCoins, dailyCoins, endDate, usdToIdr, result,
                   error, isCalculating, isLoadingRate, computes, fetches, fetchSeq,
                   actions, dstShift, hist>>

Next ==
    \/ \E v \in PriceEdits : EditPrice(v)
    \/ \E v \in CoinEdits : EditCoins(v)
    \/ \E v \in DailyEdits : EditDaily(v)
    \/ \E v \in RateEdits : EditRate(v)
    \/ \E v \in DateEdits : EditDate(v)
    \/ ComputeStart
    \/ \E i \in 1..Len(computes) : ComputeFinish(i)
    \/ resetAll
    \/ FetchStart
    \/ \E id \in fetches, resp \in Responses : FetchFinish(id, resp)
    \/ \E utcShift \in UtcShifts : fillSampleData(utcShift)
    \/ Tick

Spec == Init /\ [][Next]_vars

-----------------------------------------------------------------------------
(* The engine on its own: the form idle with any input strings in its     *)
(* fields (every such state is reached by typing), then compute() alone.  *)

EngineInit ==
    /\ impl \in {"pages/index.tsx", "part_000"}
    /\ pricePerCoin \in PriceInputs
    /\ currentCoins \in CoinInputs
    /\ dailyCoins \in DailyInputs
    /\ endDate \in DateInputs
    /\ usdToIdr \in RateInputs
    /\ result = NULL
    /\ error = NoError
    /\ isCalculating = FALSE
    /\ isLoadingRate = FALSE
    /\ fetches = {}
    /\ fetchSeq = IF HasFetch THEN 1 ELSE 0
    /\ computes = <<>>
    /\ actions = 0
    /\ today = Day0
    /\ dstShift \in {-1, 0, 1}
    /\ last = NoLast
    /\ hist = NoHist

EngineNext ==
    \/ ComputeStart
    \/ \E i \in 1..Len(computes) : ComputeFinish(i)
    \/ Tick

EngineSpec == EngineInit /\ [][EngineNext]_vars

-----------------------------------------------------------------------------
(* parseNumber on its own: any short text in the price field, the other   *)
(* fields valid, then compute(), which parses the field.                  *)

MaxStrLen == 3

Alphabet == {"0", "1", ".", ",", "-", " ", "e", "x"}

S_1e999 == <<"1", "e", "9", "9", "9">>

(* Every text of at most n characters of the alphabet *)
RECURSIVE Texts(_)
Texts(n) ==
    IF n = 0 THEN {<<>>}
    ELSE LET shorter == Texts(n - 1)
         IN  shorter \cup {Append(s, c) : s \in shorter, c \in Alphabet}

ParseInputs == Texts(MaxStrLen) \cup {S_abc, InfinityChars, S_1e999, S_1000}

ParseInit ==
    /\ impl \in {"pages/index.tsx", "part_000"}
    /\ pricePerCoin \in ParseInputs
    /\ currentCoins = S_8578
    /\ dailyCoins = S_0
    /\ endDate = <<>>
    /\ usdToIdr = S_16000
    /\ result = NULL
    /\ error = NoError
    /\ isCalculating = FALSE
    /\ isLoadingRate = FALSE
    /\ fetches = {}
    /\ fetchSeq = IF HasFetch THEN 1 ELSE 0
    /\ computes = <<>>
    /\ actions = 0
    /\ today = Day0
    /\ dstShift = 0
    /\ last = NoLast
    /\ hist = NoHist

ParseNext ==
    \/ ComputeStart
    \/ \E i \in 1..Len(computes) : ComputeFinish(i)

ParseSpec == ParseInit /\ [][ParseNext]_vars

-----------------------------------------------------------------------------
(* Properties of compute *)

(* The compute that has just completed, and the numbers it parsed *)
Computed == last.op = "compute"

SnapPrice == parseNumber(last.snap.pricePerCoin)

SnapCoins == parseNumber(last.snap.currentCoins)

SnapDaily == parseNumber(last.snap.dailyCoins)

SnapRate == parseNumber(last.snap.usdToIdr)

SnapDate == last.snap.endDate

(* NaN or negative *)
Rejected(n) == IsNaN(n) \/ LtZero(n)

(* NaN, zero or negative *)
RateRejected(n) == IsNaN(n) \/ LeZero(n)

AllValid ==
    /\ ~Rejected(SnapPrice) /\ ~Rejected(SnapCoins)
    /\ ~Rejected(SnapDaily) /\ ~RateRejected(SnapRate)

ValidationMessages == {InvalidPrice, InvalidHolding, InvalidAccrual, InvalidRate}

HasProjection(r) == ProjectionFields \subseteq DOMAIN r

HasNoProjection(r) == DOMAIN r \cap ProjectionFields = {}

(* C1: a compute whose price and holding are both invalid (NaN or negative) *)
(* reports the InvalidPrice message, whatever the accrual and the rate are. *)
C1_PriceReportedFirst ==
    (Computed /\ Rejected(SnapPrice) /\ Rejected(SnapCoins)) => error = InvalidPrice

C1_Witness ==
    /\ Computed /\ Rejected(SnapPrice) /\ Rejected(SnapCoins)
    /\ Rejected(SnapDaily) /\ RateRejected(SnapRate)
    /\ error = InvalidPrice

(* C2 as stated: a compute whose holding is negative reports InvalidHolding *)
(* whatever the validity of price, accrual and rate.                        *)
C2_Original ==
    (Computed /\ LtZero(SnapCoins)) => error = InvalidHolding

(* C2 amended: a compute whose price is valid and whose holding is negative *)
(* reports InvalidHolding, whatever the validity of accrual and rate.       *)
C2_HoldingReported ==
    (Computed /\ ~Rejected(SnapPrice) /\ LtZero(SnapCoins)) => error = InvalidHolding

C2_Witness ==
    /\ Computed /\ ~Rejected(SnapPrice) /\ last.snap.currentCoins = S_neg5
    /\ Rejected(SnapDaily) /\ RateRejected(SnapRate)
    /\ error = InvalidHolding

(* C3: with price, holding and accrual valid, a rate that parses to zero, a *)
(* negative number or NaN makes compute report InvalidRate and leave the    *)
(* result as it was (setResult is not called).                              *)
C3_RateRejected ==
    (/\ Computed /\ ~Rejected(SnapPrice) /\ ~Rejected(SnapCoins) /\ ~Rejected(SnapDaily)
     /\ RateRejected(SnapRate))
        => (error = InvalidRate /\ result = last.before)

C3_Witness ==
    /\ Computed /\ ~Rejected(SnapPrice) /\ ~Rejected(SnapCoins) /\ ~Rejected(SnapDaily)
    /\ last.snap.usdToIdr = S_0
    /\ error = InvalidRate /\ result = NULL

(* C4: a compute whose four validations pass publishes a result and sets no *)
(* error, whatever the target-date string is.                               *)
C4_NoOtherFailure ==
    (Computed /\ AllValid) => (result # NULL /\ error = NoError)

C4_Witness ==
    /\ Computed /\ AllValid /\ GtZero(SnapDaily) /\ SnapDate = S_abc
    /\ result # NULL /\ error = NoError

(* A step in which a pending compute completes on inputs that fail validation *)
ComputeFails ==
    \E i \in 1..Len(computes) :
        /\ computes' = SubSeq(computes, 1, i - 1) \o SubSeq(computes, i + 1, Len(computes))
        /\ LET price == parseNumber(computes[i].pricePerCoin)
               coins == parseNumber(computes[i].currentCoins)
               daily == parseNumber(computes[i].dailyCoins)
               rate  == parseNumber(computes[i].usdToIdr)
           IN  Rejected(price) \/ Rejected(coins) \/ Rejected(daily) \/ RateRejected(rate)

(* C5: a compute that ends in a validation failure leaves the published     *)
(* result (null or the last successful one) and every input field as they   *)
(* were; it sets one of the four messages and clears the calculating flag.  *)
C5_FailureKeepsResult ==
    [][ComputeFails =>
          /\ result' = result
          /\ error' \in ValidationMessages
          /\ isCalculating' = FALSE
          /\ UNCHANGED <<pricePerCoin, currentCoins, dailyCoins, endDate, usdToIdr,
                         isLoadingRate>>]_vars

C5_Witness ==
    /\ Computed /\ ~AllValid
    /\ last.before # NULL /\ result = last.before
    /\ error \in ValidationMessages /\ ~isCalculating

Scenario1 ==
    last.snap = [pricePerCoin |-> S_048, currentCoins |-> S_1000, dailyCoins |-> S_0,
                 usdToIdr |-> FallbackRate, endDate |-> <<>>]

(* C6: a successful compute yields totalUSDT = price * holding and          *)
(* totalIDR = totalUSDT * rate; price 0.48, holding 1,000, accrual 0, rate  *)
(* 15000 and no date give exactly totalUSDT 480 and totalIDR 7,200,000.     *)
C6_Totals ==
    (Computed /\ AllValid) =>
        /\ result # NULL
        /\ result.totalUSDT = Mul(SnapPrice, SnapCoins)
        /\ result.totalIDR = Mul(Mul(SnapPrice, SnapCoins), SnapRate)
        /\ Scenario1 => result = [totalUSDT |-> FromInt(480), totalIDR |-> FromInt(7200000)]

C6_Witness ==
    /\ Computed /\ Scenario1
    /\ result = [totalUSDT |-> [kind |-> "num", m |-> 48, e |-> 1],
                 totalIDR |-> [kind |-> "num", m |-> 72, e |-> 5]]

(* C7: a successful compute whose accrual is 0 or whose target date string  *)
(* is empty publishes a result with none of the projection fields.          *)
C7_ProjectionAbsent ==
    (Computed /\ AllValid /\ (IsZero(SnapDaily) \/ SnapDate = <<>>)) =>
        (result # NULL /\ HasNoProjection(result))

C7_Witness ==
    /\ Computed /\ AllValid /\ IsZero(SnapDaily) /\ SnapDate = ISODate(Day0 + 30)
    /\ DOMAIN result = {"totalUSDT", "totalIDR"}

(* C8: a successful compute with accrual > 0 and a non-empty target date    *)
(* string that does not parse to a date publishes no projection fields.     *)
C8_UnparseableDateNoProjection ==
    (/\ Computed /\ AllValid /\ GtZero(SnapDaily)
     /\ SnapDate # <<>> /\ ~NewDate(SnapDate \o TimeSuffix).ok)
        => (result # NULL /\ HasNoProjection(result))

(* C9: a successful compute with accrual > 0 and a target date that is      *)
(* today or earlier publishes the projection with daysProjected = 0,        *)
(* projectedUSDT = totalUSDT and projectedIDR = totalIDR.                   *)
C9_ProjectionFloor ==
    (/\ Computed /\ AllValid /\ GtZero(SnapDaily)
     /\ \E k \in (Day0 - 1)..today : SnapDate = ISODate(k))
        => /\ result # NULL /\ HasProjection(result)
           /\ result.daysProjected = 0
           /\ result.projectedUSDT = result.totalUSDT
           /\ result.projectedIDR = result.totalIDR

C9_Witness ==
    /\ Computed /\ AllValid /\ GtZero(SnapDaily)
    /\ SnapDate = ISODate(today - 1) /\ dstShift = 1 /\ today = DstDay
    /\ HasProjection(result) /\ result.daysProjected = 0
    /\ result.projectedUSDT = result.totalUSDT

(* The target date of the last compute is d calendar days after today and   *)
(* its local midnight is d whole days after today's local midnight          *)
WholeDaysAhead(d) ==
    /\ SnapDate = ISODate(today + d)
    /\ LocalMidnight(today + d) - LocalMidnight(today) = 24 * d

MaxAhead == 31

Scenario2 ==
    /\ last.snap.pricePerCoin = S_04796 /\ last.snap.currentCoins = S_8578
    /\ last.snap.dailyCoins = S_180 /\ last.snap.usdToIdr = FallbackRate
    /\ WholeDaysAhead(30)

(* x lies in [lo, hi) *)
Within(x, lo, hi) == Leq(lo, x) /\ ~Leq(hi, x)

ProjectionLaw(d) ==
    /\ result # NULL /\ HasProjection(result)
    /\ result.daysProjected = d
    /\ result.projectedUSDT = Mul(Add(SnapCoins, Mul(SnapDaily, FromInt(d))), SnapPrice)
    /\ result.projectedIDR = Mul(result.projectedUSDT, SnapRate)

(* C10 as stated: for a target date d > 0 whole days after today's local    *)
(* midnight and accrual > 0, daysProjected = d, projectedUSDT =             *)
(* (holding + accrual * d) * price, projectedIDR = projectedUSDT * rate;    *)
(* price 0.4796, holding 8578, accrual 180, rate 15000, 30 days ahead give  *)
(* daysProjected = 30 and projectedUSDT = 6703.288...                       *)
C10_Original ==
    (Computed /\ AllValid /\ GtZero(SnapDaily)) =>
        /\ \A d \in 1..MaxAhead : WholeDaysAhead(d) => ProjectionLaw(d)
        /\ Scenario2 =>
              /\ result.daysProjected = 30
              /\ Within(result.projectedUSDT, MkNum(6703288, -3), MkNum(6703289, -3))

(* C10 amended: the same law, and the scenario gives daysProjected = 30,    *)
(* projectedUSDT = 13978 * 0.4796 = 6703.8488, projectedIDR = 100,557,732.  *)
C10_ProjectionAhead ==
    (Computed /\ AllValid /\ GtZero(SnapDaily)) =>
        /\ \A d \in 1..MaxAhead : WholeDaysAhead(d) => ProjectionLaw(d)
        /\ Scenario2 =>
              /\ result.daysProjected = 30
              /\ result.projectedUSDT = [kind |-> "num", m |-> 67038488, e |-> -4]
              /\ result.projectedIDR = [kind |-> "num", m |-> 100557732, e |-> 0]

C10_Witness ==
    /\ Computed /\ Scenario2
    /\ result.daysProjected = 30
    /\ result.projectedUSDT = [kind |-> "num", m |-> 67038488, e |-> -4]

-----------------------------------------------------------------------------
(* Properties of the published result and of the rate fetch *)

(* C11: in every reachable state the published result is null or a record *)
(* whose three projection fields are all present or all absent.           *)
C11_ProjectionAllOrNothing ==
    result = NULL \/ HasProjection(result) \/ HasNoProjection(result)

(* A compute has published a result that carries the projection *)
C11_Witness ==
    /\ Computed
    /\ result # NULL
    /\ result # last.before
    /\ HasProjection(result)

(* The fetch that has just completed, and whether it failed *)
Fetched == last.op = "fetch"

FailureKinds == {"network_error", "invalid_json", "no_rates", "no_idr"}

FetchFailed == Fetched /\ last.resp.kind \in FailureKinds

(* C12: when a rate fetch fails (network error, body that is not JSON,    *)
(* payload without rates or without rates.IDR) the rate string becomes    *)
(* "15000", the advisory message is set, and fetchExchangeRate returns    *)
(* normally: the call is over and the loading flag is cleared.            *)
C12_FetchFailureFallsBack ==
    FetchFailed =>
        /\ usdToIdr = FallbackRate
        /\ error = RateFetchFailed
        /\ ~isLoadingRate
        /\ last.id \notin fetches

(* A fetch has failed on the parsing of its body *)
C12_Witness ==
    /\ FetchFailed
    /\ last.resp.kind = "invalid_json"
    /\ usdToIdr = FallbackRate

(* The snapshot a compute has just captured *)
Triggered == Len(computes') = Len(computes) + 1

Captured == computes'[Len(computes')]

(* The step is the user typing into the rate field *)
RateEdited ==
    /\ actions' = actions + 1
    /\ UNCHANGED <<pricePerCoin, currentCoins, dailyCoins, endDate, result, error,
                   isCalculating, isLoadingRate, computes, fetches, fetchSeq>>

(* C13: after a failed rate fetch has completed, a compute triggered next  *)
(* with valid price, holding and accrual succeeds and uses the rate 15000: *)
(* the compute triggered right after the failure captures "15000", the     *)
(* rate stays "15000" until the rate field is edited or another fetch      *)
(* completes, and a compute that captured "15000" with valid price,        *)
(* holding and accrual publishes totalIDR = price * holding * 15000.       *)
C13_ComputeAfterFailedFetch ==
    /\ [][FetchFailed /\ Triggered => Captured.usdToIdr = FallbackRate]_vars
    /\ [][usdToIdr = FallbackRate /\ usdToIdr' # FallbackRate
              => RateEdited \/ last'.op = "fetch"]_vars
    /\ [](Computed /\ last.snap.usdToIdr = FallbackRate
                   /\ ~Rejected(SnapPrice) /\ ~Rejected(SnapCoins) /\ ~Rejected(SnapDaily)
              => /\ result # NULL
                 /\ result.totalIDR = Mul(Mul(SnapCoins, SnapPrice), FromInt(15000)))

(* The sample data valued at the fallback rate that the failed fetch of *)
(* the sample-data button left behind: 0.4796 * 8578 * 15000            *)
C13_Witness ==
    /\ HasFetch
    /\ Computed
    /\ actions = 2
    /\ hist.fetched /\ hist.rate = FallbackRate
    /\ last.snap.currentCoins = S_8578
    /\ last.snap.usdToIdr = FallbackRate
    /\ result # NULL
    /\ result.totalIDR = FromInt(61710132)

(* C14: after any rate fetch completes, the rate string parses to a finite *)
(* number > 0, so that it passes the rate validation of compute.           *)
C14_RateUsableAfterFetch ==
    Fetched => ~RateRejected(parseNumber(usdToIdr))

(* C15: at most one rate fetch is in flight at any time. *)
C15_AtMostOneFetch == Cardinality(fetches) <= 1

(* What a fetch leaves in the rate field for a response *)
FetchOutcome(resp) ==
    IF resp.kind \in FailureKinds THEN FallbackRate
    ELSE IF IsZero(resp.idr.n) THEN FallbackRate
    ELSE NumToString(resp.idr.n)

(* C16: when a fetch completes the rate string becomes that fetch's       *)
(* outcome, and once all started fetches have completed the rate is the   *)
(* outcome of the most recently started fetch.                            *)
C16_LatestFetchWins ==
    /\ Fetched => usdToIdr = FetchOutcome(last.resp)
    /\ Fetched /\ fetches = {} => hist.fetched /\ usdToIdr = hist.rate

(* C17: a compute works on the snapshot of the five fields taken when it   *)
(* was triggered: whatever happened to the fields during the delay, the    *)
(* validation error it reports and the result it publishes are those of    *)
(* the snapshot.                                                           *)
C17_ComputeUsesSnapshot ==
    Computed =>
        LET msg == Validate(SnapPrice, SnapCoins, SnapDaily, SnapRate)
        IN  IF msg # NoError
            THEN error = msg /\ result = last.before
            ELSE result = MakeResult(SnapPrice, SnapCoins, SnapDaily, SnapRate,
                                     SnapDate, today)

(* A result published from a snapshot whose price has since been replaced *)
(* by one that compute rejects                                            *)
C17_Witness ==
    /\ Computed
    /\ result # NULL
    /\ result # last.before
    /\ last.snap.pricePerCoin # pricePerCoin
    /\ Rejected(parseNumber(pricePerCoin))
    /\ ~Rejected(SnapPrice)

(* The compute completing in this step has the inputs of the compute that *)
(* published the result on display                                        *)
Recomputed ==
    /\ hist.snap # NoSnap
    /\ last'.op = "compute"
    /\ last'.snap = hist.snap

(* C18 as stated: two computes triggered with identical inputs publish *)
(* identical results.                                                  *)
C18_Original == [][Recomputed => result' = result]_vars

(* C18: two computes triggered with identical inputs publish identical   *)
(* results when they complete on the same local calendar day or when the *)
(* inputs ask for no projection.                                         *)
C18_Idempotent ==
    [][Recomputed /\ (hist.day = today
                         \/ ~ProjectionActive(parseNumber(hist.snap.dailyCoins),
                                              hist.snap.endDate))
          => result' = result]_vars

(* A second compute of the same inputs on the same day has published the *)
(* same projection again                                                 *)
C18_Witness ==
    /\ Computed
    /\ last.before # NULL
    /\ hist.snap = last.snap
    /\ result = last.before
    /\ HasProjection(result)
    /\ result.daysProjected > 0

-----------------------------------------------------------------------------
(* Properties of parseNumber *)

Blank(s) == \A i \in 1..Len(s) : IsSpace(s[i])

RECURSIVE WithoutCommas(_)
WithoutCommas(s) ==
    IF s = <<>> THEN <<>>
    ELSE IF Head(s) = "," THEN WithoutCommas(Tail(s))
    ELSE <<Head(s)>> \o WithoutCommas(Tail(s))

Digits(s) == s # <<>> /\ \A i \in 1..Len(s) : s[i] \in {DigitChars[k] : k \in 1..10}

(* digits, digits. , digits.digits or .digits *)
IsMantissa(s) ==
    \E d \in 0..Len(s) :
        LET ip == SubSeq(s, 1, d)
            fp == SubSeq(s, d + 1, Len(s))
        IN  \/ Digits(ip) /\ fp = <<>>
            \/ Digits(ip) /\ fp = <<".">>
            \/ (ip = <<>> \/ Digits(ip)) /\ fp # <<>> /\ Head(fp) = "." /\ Digits(Tail(fp))

IsExponent(s) ==
    /\ s # <<>>
    /\ Head(s) \in {"e", "E"}
    /\ LET t == Tail(s)
       IN  Digits(t) \/ (t # <<>> /\ Head(t) \in {"+", "-"} /\ Digits(Tail(t)))

(* A signed decimal number, with or without an exponent *)
IsDecimalNumber(s) ==
    LET body == IF s # <<>> /\ Head(s) \in {"+", "-"} THEN Tail(s) ELSE s
    IN  \E k \in 0..Len(body) :
            /\ IsMantissa(SubSeq(body, 1, k))
            /\ (k = Len(body) \/ IsExponent(SubSeq(body, k + 1, Len(body))))

(* C19: parseNumber returns 0 for the empty string and for whitespace-only *)
(* input, and the not-a-number sentinel for every input whose cleaned form *)
(* is not a finite decimal number.                                         *)
C19_NonDecimalIsNaN ==
    Computed =>
        LET s == last.snap.pricePerCoin
            cleaned == Trim(WithoutCommas(s))
        IN  /\ Blank(s) => SnapPrice = FromInt(0)
            /\ ~Blank(s) /\ ~IsDecimalNumber(cleaned) => IsNaN(SnapPrice)
            /\ s \in {InfinityChars, S_1e999} => IsNaN(SnapPrice)

(* C20: for every string s with embedded commas, parseNumber(s) equals *)
(* parseNumber of s with every comma removed.                          *)
C20_CommasAreGrouping ==
    Computed => SnapPrice = parseNumber(WithoutCommas(last.snap.pricePerCoin))

(* A price with a comma between its digits has been parsed to a number *)
C20_Witness ==
    /\ Computed
    /\ \E i \in 2..(Len(last.snap.pricePerCoin) - 1) : last.snap.pricePerCoin[i] = ","
    /\ GtZero(SnapPrice)
    /\ result # NULL

-----------------------------------------------------------------------------
(* Properties of the parsed quantities and of the failure paths *)

NonNegativeOrNaN(n) == IsNaN(n) \/ (IsFinite(n) /\ ~LtZero(n))

(* A not-a-number parse of a field ends in a validation error: that     *)
(* field's when no earlier field is rejected, and nothing is published  *)
NaNIsRejected ==
    /\ (\E n \in {SnapPrice, SnapCoins, SnapDaily, SnapRate} : IsNaN(n))
           => error \in ValidationMessages /\ result = last.before
    /\ IsNaN(SnapPrice) => error = InvalidPrice
    /\ IsNaN(SnapCoins) /\ ~Rejected(SnapPrice) => error = InvalidHolding
    /\ IsNaN(SnapDaily) /\ ~Rejected(SnapPrice) /\ ~Rejected(SnapCoins)
           => error = InvalidAccrual
    /\ IsNaN(SnapRate) /\ ~Rejected(SnapPrice) /\ ~Rejected(SnapCoins)
                       /\ ~Rejected(SnapDaily)
           => error = InvalidRate

(* C21 as stated: every parse yields a finite non-negative number or the  *)
(* sentinel, never a negative number, and a not-a-number parse of any of  *)
(* the four fields is never treated as zero by compute.                   *)
C21_Original ==
    Computed =>
        /\ \A n \in {SnapPrice, SnapCoins, SnapDaily, SnapRate} : NonNegativeOrNaN(n)
        /\ NaNIsRejected

(* C21: every parse yields a finite number, which may be negative, or the *)
(* sentinel; a negative parse is rejected by the validation of compute,   *)
(* so the numbers behind a published result are non-negative; and a       *)
(* not-a-number parse of any of the four fields is never treated as zero: *)
(* the compute ends in the validation error of the first rejected field.  *)
C21_ParsedOrRejected ==
    Computed =>
        /\ \A n \in {SnapPrice, SnapCoins, SnapDaily, SnapRate} : IsNaN(n) \/ IsFinite(n)
        /\ (\E n \in {SnapPrice, SnapCoins, SnapDaily, SnapRate} : LtZero(n))
               => error \in ValidationMessages /\ result = last.before
        /\ result # last.before
               => \A n \in {SnapPrice, SnapCoins, SnapDaily, SnapRate} :
                      IsFinite(n) /\ ~LtZero(n)
        /\ NaNIsRejected

(* The accrual field did not parse, price and holding did: the compute *)
(* reported the accrual and published nothing                          *)
C21_Witness ==
    /\ Computed
    /\ last.snap.dailyCoins = S_abc /\ IsNaN(SnapDaily)
    /\ ~Rejected(SnapPrice) /\ ~Rejected(SnapCoins)
    /\ error = InvalidAccrual
    /\ result = NULL

(* C22: every failure path leaves the form re-enterable: after a compute  *)
(* ends in a validation failure the calculating flag is false and compute *)
(* can be triggered again; after a fetch ends in failure the loading flag *)
(* is false and the refresh control can start a fetch again.              *)
C22_FailureReenterable ==
    /\ Computed /\ ~AllValid
           => ~isCalculating /\ (actions < MaxActions => ENABLED ComputeStart)
    /\ FetchFailed
           => ~isLoadingRate /\ (actions < MaxActions => ENABLED FetchStart)

(* After a failed fetch left the fallback rate, a compute has failed while *)
(* the form can still act                                                 *)
C22_Witness ==
    /\ actions < MaxActions
    /\ hist.fetched /\ hist.rate = FallbackRate /\ ~isLoadingRate
    /\ Computed /\ ~AllValid
    /\ error \in ValidationMessages
    /\ ENABLED ComputeStart /\ ENABLED FetchStart

(* A compute is between its trigger and its completion *)
Pending == computes # <<>>

(* C23: triggering compute clears the error message at once; from then   *)
(* until the compute completes the error shown is empty unless a failing *)
(* rate fetch sets the advisory in between, so no earlier validation     *)
(* error or advisory survives into the new attempt.                      *)
C23_TriggerClearsError ==
    /\ [][Triggered => error' = NoError]_vars
    /\ [](Pending => error \in {NoError, RateFetchFailed})
    /\ [][Pending /\ Pending' /\ error' # NoError /\ error' # error
              => last'.op = "fetch" /\ error' = RateFetchFailed]_vars

(* The start-up fetch failed and set the advisory; the compute triggered *)
(* afterwards, the only user action so far, shows no error               *)
C23_Witness ==
    /\ HasFetch
    /\ actions = 1
    /\ Pending
    /\ hist.fetched /\ hist.rate = FallbackRate
    /\ error = NoError

(* x >= y as the language evaluates it: false when either is NaN *)
AtLeast(x, y) ==
    /\ ~IsNaN(x) /\ ~IsNaN(y)
    /\ \/ x = y
       \/ x.kind = "inf" /\ x.m > 0
       \/ y.kind = "inf" /\ y.m < 0
       \/ IsFinite(x) /\ IsFinite(y) /\ Leq(y, x)

ProjectionAtLeastTotals(r) ==
    /\ AtLeast(r.projectedUSDT, r.totalUSDT)
    /\ AtLeast(r.projectedIDR, r.totalIDR)

(* C24 as stated: in every published result that carries a projection,  *)
(* daysProjected is a non-negative integer, projectedUSDT >= totalUSDT   *)
(* and projectedIDR >= totalIDR.                                         *)
C24_Original ==
    result # NULL /\ HasProjection(result) =>
        /\ result.daysProjected \in Nat
        /\ ProjectionAtLeastTotals(result)

(* The holding the projection values: holding + accrual * daysProjected *)
ProjectedHolding(r) == Add(SnapCoins, Mul(SnapDaily, FromInt(r.daysProjected)))

(* C24: in every published result that carries a projection,             *)
(* daysProjected is a non-negative integer, and projectedUSDT >=         *)
(* totalUSDT and projectedIDR >= totalIDR whenever the price is > 0 or   *)
(* the projected holding is finite; with price 0 and a projected holding *)
(* beyond the double range the projected values are NaN.                 *)
C24_ProjectionNotBelowTotals ==
    Computed /\ AllValid /\ HasProjection(result) =>
        /\ result.daysProjected \in Nat
        /\ IF GtZero(SnapPrice) \/ IsFinite(ProjectedHolding(result))
           THEN ProjectionAtLeastTotals(result)
           ELSE IsNaN(result.projectedUSDT) /\ IsNaN(result.projectedIDR)

(* A projection over some days that lies strictly above the totals *)
C24_Witness ==
    /\ Computed /\ AllValid
    /\ HasProjection(result)
    /\ result.daysProjected > 0
    /\ ProjectionAtLeastTotals(result)
    /\ result.projectedUSDT # result.totalUSDT
    /\ result.projectedIDR # result.totalIDR

(* C25: at most one compute is pending at any time: the calculating flag *)
(* is set exactly while a compute is pending, it is cleared only by the  *)
(* completion of that compute, and result and error are written by the   *)
(* completion of the one pending compute only.                           *)
C25_OneComputePending ==
    /\ [](Len(computes) <= 1 /\ (isCalculating <=> Pending))
    /\ [][Triggered => ~isCalculating /\ isCalculating']_vars
    /\ [][isCalculating /\ ~isCalculating'
              => last'.op = "compute" /\ last'.snap = computes[1] /\ computes' = <<>>]_vars

(* A second compute is pending after the first one has completed *)
C25_Witness ==
    /\ Len(computes) = 1
    /\ isCalculating
    /\ result # NULL
    /\ hist.snap # NoSnap

(* A pending compute leaves the queue with every captured field accepted *)
ComputeSucceeds ==
    \E i \in 1..Len(computes) :
        /\ computes' = SubSeq(computes, 1, i - 1) \o SubSeq(computes, i + 1, Len(computes))
        /\ LET price == parseNumber(computes[i].pricePerCoin)
               coins == parseNumber(computes[i].currentCoins)
               daily == parseNumber(computes[i].dailyCoins)
               rate  == parseNumber(computes[i].usdToIdr)
           IN  ~(Rejected(price) \/ Rejected(coins) \/ Rejected(daily) \/ RateRejected(rate))

(* C26: a compute that completes successfully publishes its result and    *)
(* leaves the error message as it finds it; the message is then empty     *)
(* unless a rate fetch failed while the compute was pending, in which     *)
(* case the advisory and the new result are on display together           *)
C26_ErrorSurvivesSuccess ==
    /\ [][ComputeSucceeds => error' = error /\ result' # NULL]_vars
    /\ [](Computed /\ AllValid => /\ result # NULL
                                 /\ error \in {NoError, RateFetchFailed})
    /\ [][Pending /\ error = NoError /\ error' # NoError
              => \/ last'.op = "fetch" /\ error' = RateFetchFailed
                 \/ ComputeFails]_vars

C26_Witness ==
    /\ Computed /\ AllValid
    /\ error = RateFetchFailed
    /\ result # NULL /\ result # last.before

(* C27: while the loading flag is down no started fetch is still awaiting *)
(* its response                                                           *)
C27_LoadingWhileInFlight == ~isLoadingRate => fetches = {}

(* C28: from resetAll until the user next triggers a compute, a fetch or  *)
(* an edit, the result stays null, the error empty and the rate "15000"   *)
C28_ResetIsFinal ==
    hist.reset => result = NULL /\ error = NoError /\ usdToIdr = FallbackRate

(* A response that takes the branch of fetchExchangeRate that adopts it *)
Adopted(resp) == resp.kind = "idr" /\ Truthy(resp.idr)

(* C29: a rate fetch changes only the rate string, the loading flag and,  *)
(* when it fails, the error message: starting it raises the flag and      *)
(* leaves rate, result and error alone; completing it leaves the result   *)
(* and the four other fields alone, a successful one keeps the error      *)
(* message as it is and a failed one sets the advisory and the fallback   *)
C29_FetchFrame ==
    /\ [][fetchSeq' # fetchSeq
              => /\ isLoadingRate'
                 /\ usdToIdr' = usdToIdr /\ result' = result /\ error' = error
                 /\ isCalculating' = isCalculating /\ computes' = computes]_vars
    /\ [][last'.op = "fetch"
              => /\ ~isLoadingRate'
                 /\ result' = result
                 /\ pricePerCoin' = pricePerCoin /\ currentCoins' = currentCoins
                 /\ dailyCoins' = dailyCoins /\ endDate' = endDate
                 /\ isCalculating' = isCalculating /\ computes' = computes
                 /\ IF Adopted(last'.resp)
                    THEN error' = error /\ usdToIdr' = JsToString(last'.resp.idr)
                    ELSE error' = RateFetchFailed /\ usdToIdr' = FallbackRate]_vars

(* A successful refresh has completed and the advisory of the earlier     *)
(* failed fetch is still on display                                       *)
C29_Witness ==
    /\ Fetched /\ Adopted(last.resp)
    /\ actions >= 1
    /\ error = RateFetchFailed
    /\ usdToIdr = JsToString(last.resp.idr)
    /\ usdToIdr # FallbackRate

(* The compute that has just completed captured an empty price, holding  *)
(* or accrual field                                                       *)
EmptyAmount ==
    \/ last.snap.pricePerCoin = <<>>
    \/ last.snap.currentCoins = <<>>
    \/ last.snap.dailyCoins = <<>>

(* C30: an empty price, holding or accrual field counts as 0 and is never *)
(* the field a compute rejects: with the other fields valid the compute   *)
(* succeeds, and its totalUSDT is 0 when the price or the holding is      *)
(* empty.  An empty rate field is always rejected, with InvalidRate once  *)
(* the three fields before it are accepted; this includes the compute     *)
(* that captured the rate field before the start-up fetch filled it       *)
C30_EmptyFields ==
    Computed =>
        /\ last.snap.pricePerCoin = <<>> => IsZero(SnapPrice) /\ error # InvalidPrice
        /\ last.snap.currentCoins = <<>> => IsZero(SnapCoins) /\ error # InvalidHolding
        /\ last.snap.dailyCoins = <<>> => IsZero(SnapDaily) /\ error # InvalidAccrual
        /\ EmptyAmount /\ AllValid
               => /\ result # NULL /\ error \notin ValidationMessages
                  /\ last.snap.pricePerCoin = <<>> \/ last.snap.currentCoins = <<>>
                         => IsZero(result.totalUSDT)
        /\ last.snap.usdToIdr = <<>>
               => /\ error \in ValidationMessages /\ result = last.before
                  /\ ~Rejected(SnapPrice) /\ ~Rejected(SnapCoins) /\ ~Rejected(SnapDaily)
                         => error = InvalidRate

(* The compute triggered before the start-up fetch had filled the rate    *)
(* field ends in InvalidRate, the empty holding and accrual accepted,     *)
(* although the rate has arrived in the meantime                          *)
C30_Witness ==
    /\ HasFetch /\ Computed
    /\ last.snap.usdToIdr = <<>> /\ usdToIdr # <<>>
    /\ last.snap.currentCoins = <<>> /\ last.snap.dailyCoins = <<>>
    /\ error = InvalidRate /\ result = NULL

====
